---- MODULE Spec2Model ----
(***************************************************************************)
(* Model of streamlit_app.py: the two catalog finders                       *)
(* (get_spotify_releases, get_movie_recommendations), the st.cache_data     *)
(* wrappers around them and the script's main flow (secrets, finder calls,  *)
(* post-processing and rendering).                                          *)
(***************************************************************************)
EXTENDS Integers, Sequences, FiniteSets, TLC

VARIABLES
    kpc,            \* position inside get_spotify_releases
    month,          \* argument month
    day,            \* argument day
    current_year,   \* datetime.now().year
    catalog,        \* which repertoire of responses the music catalog has
    years_sample,   \* the years random.sample returned (as a set)
    todo,           \* sampled years the for loop has not reached yet
    albums_found,   \* the accumulator
    visited,        \* years a search was issued for
    n_search,       \* number of sp_client.search calls issued
    clean_albums,   \* history: matches of the years processed without error
    stub_profile,   \* history: what the catalog has answered so far
    \* get_movie_recommendations
    mpc,            \* position inside get_movie_recommendations
    api_key,        \* argument api_key
    fn_movies,      \* the local list movies
    get_log,        \* years a discovery request was issued for, in order
    json_error_is_request_error,  \* the installed requests raises its own
                    \* JSONDecodeError (a RequestException) from .json()
    \* the script run
    pc,             \* position of the script run
    secrets,        \* what .streamlit/secrets.toml holds
    client_hashable, \* st.cache_data can hash a spotipy.Spotify object
    sel,            \* the form's month and day
    albums,         \* what get_spotify_releases gave the script
    movies,         \* what get_movie_recommendations gave the script
    shown_albums,   \* the albums rendered
    shown_movies,   \* the movies rendered
    screen,         \* the message elements rendered in this run
    kpop_cache,     \* st.cache_data store of get_spotify_releases
    movie_cache,    \* st.cache_data store of get_movie_recommendations
    n_submit,       \* form submissions so far
    kpop_first,     \* history: how the first call for each input ended
    movie_first,    \* history: the same for get_movie_recommendations
    last_call       \* history: how the latest finder call ended

kvars == <<kpc, month, day, current_year, catalog, years_sample, todo,
           albums_found, visited, n_search, clean_albums, stub_profile>>

mvars == <<mpc, api_key, fn_movies, get_log, json_error_is_request_error>>

avars == <<pc, secrets, client_hashable, sel, albums, movies, shown_albums,
           shown_movies, screen, kpop_cache, movie_cache, n_submit,
           kpop_first, movie_first, last_call>>

vars == <<kvars, mvars, avars>>

----------------------------------------------------------------------------
(* Bounds of the model *)

\* largest number of candidate years with the full response repertoire
MaxYears == 5
\* largest number of candidate years with the small response repertoire
MaxYearsWide == 11
\* longest album page the full repertoire holds
MaxItems == 2
\* most movie records one call accumulates
MaxMovies == 2
\* longest raw list handed to the post-processing
MaxRaw == 6
\* form submissions in one process
MaxSubmits == 2

(* Program constants *)

\* range(current_year - 1, 2000, -1): the exclusive stop of the range
RangeStop == 2000
\* min(len(years_to_search), 10)
SampleSize == 10
\* if len(albums_found) > 5: break
EnoughAlbums == 5
\* range(current_year, current_year - 20, -1)
MovieYears == 20
\* sorted_albums[:5], sorted_movies[:5]
DisplayCap == 5

----------------------------------------------------------------------------
(* Records of the music catalog.  release_date is the string "YYYY-MM-DD",  *)
(* "YYYY-MM" or "YYYY", kept as the tuple of its numeric fields.            *)

AlbumMar1 == [id |-> "a", release_date_precision |-> "day",
              release_date |-> <<2012, 3, 1>>]
AlbumMar2 == [id |-> "c", release_date_precision |-> "day",
              release_date |-> <<2015, 3, 2>>]
AlbumMonth == [id |-> "d", release_date_precision |-> "month",
               release_date |-> <<2015, 3>>]
AlbumBadDate == [id |-> "e", release_date_precision |-> "day",
                 release_date |-> <<2015, 2, 30>>]

Items == {AlbumMar1, AlbumMar2, AlbumMonth, AlbumBadDate}

Months == {3, 4}
Days == {1, 2}

SeqsUpTo(S, n) == UNION {[1..k -> S] : k \in 0..n}

\* sp_client.search either raises or returns results['albums']['items']
SearchRaises == [raises |-> TRUE, items |-> <<>>]
Page(items) == [raises |-> FALSE, items |-> items]
Pages(c) ==
    IF c = "rich"
    THEN {SearchRaises} \cup {Page(s) : s \in SeqsUpTo(Items, MaxItems)}
    ELSE {SearchRaises, Page(<<>>), Page(<<AlbumMar1>>)}

----------------------------------------------------------------------------
(* datetime.strptime(s, '%Y-%m-%d') *)

IsLeap(y) == (y % 4 = 0 /\ y % 100 # 0) \/ y % 400 = 0

DaysInMonth(y, m) ==
    IF m = 2 THEN (IF IsLeap(y) THEN 29 ELSE 28)
    ELSE IF m \in {4, 6, 9, 11} THEN 30 ELSE 31

ValueError == [ok |-> FALSE]

Strptime(s) ==
    IF /\ Len(s) = 3
       /\ s[2] \in 1..12
       /\ s[3] \in 1..DaysInMonth(s[1], s[2])
    THEN [ok |-> TRUE, year |-> s[1], month |-> s[2], day |-> s[3]]
    ELSE ValueError

----------------------------------------------------------------------------
(* get_spotify_releases *)

YearsFromStop(cy) == {y \in RangeStop..(cy - 1) : TRUE}

\* line 43: range(current_year - 1, 2000, -1)
YearsToSearch(cy) == {y \in (RangeStop + 1)..(cy - 1) : TRUE}

Min(a, b) == IF a < b THEN a ELSE b

\* the results random.sample(population, k) can give, order left open
RandomSample(population, k) == {S \in SUBSET population : Cardinality(S) = k}

AlbumMatchesMonthOnly(album, m, d) ==
    Strptime(album.release_date).month = m

\* line 57: the comparison of the parsed date with the query
AlbumMatches(album, m, d) ==
    /\ Strptime(album.release_date).month = m
    /\ Strptime(album.release_date).day = d

\* lines 52-58: the inner for loop; stops at the first item that raises
RECURSIVE ScanItems(_, _, _, _)
ScanItems(acc, items, m, d) ==
    IF items = <<>> THEN [acc |-> acc, raised |-> FALSE]
    ELSE LET album == Head(items) IN
         IF album.release_date_precision = "day"
         THEN IF ~Strptime(album.release_date).ok
              THEN [acc |-> acc, raised |-> TRUE]
              ELSE IF AlbumMatches(album, m, d)
                   THEN ScanItems(Append(acc, album), Tail(items), m, d)
                   ELSE ScanItems(acc, Tail(items), m, d)
         ELSE ScanItems(acc, Tail(items), m, d)

\* lines 61-62
EnoughFound(acc) == Len(acc) > EnoughAlbums

OnExceptionBreak == "break"

\* lines 63-64: what the except clause does with the loop
OnException == "continue"

\* lines 47-64: one iteration of the outer loop
ProcessYear(acc, resp, m, d) ==
    IF resp.raises
    THEN [acc |-> acc, failed |-> TRUE, stop |-> OnException = "break"]
    ELSE LET r == ScanItems(acc, resp.items, m, d) IN
         IF r.raised
         THEN [acc |-> r.acc, failed |-> TRUE, stop |-> OnException = "break"]
         ELSE [acc |-> r.acc, failed |-> FALSE, stop |-> EnoughFound(r.acc)]

\* history only: the records of a page the caller asked for, by their fields
WantedOf(resp, m, d) ==
    IF resp.raises THEN <<>>
    ELSE SelectSeq(resp.items, LAMBDA a :
            /\ a.release_date_precision = "day"
            /\ Len(a.release_date) = 3
            /\ a.release_date[2] = m
            /\ a.release_date[3] = d)

\* history only: a page made of nothing but valid matching records
AllValidMatches(resp, m, d) ==
    /\ ~resp.raises
    /\ resp.items # <<>>
    /\ \A i \in 1..Len(resp.items) :
          /\ resp.items[i].release_date_precision = "day"
          /\ Strptime(resp.items[i].release_date).ok
          /\ resp.items[i].release_date[2] = m
          /\ resp.items[i].release_date[3] = d

\* history only: "all_valid" while every year returned valid matches,
\* "one_raised" when exactly one search raised and the rest were valid
NextProfile(p, resp, m, d) ==
    IF resp.raises
    THEN (IF p = "all_valid" THEN "one_raised" ELSE "other")
    ELSE (IF AllValidMatches(resp, m, d) THEN p ELSE "other")

\* lines 40-46: the call starts and the sample is drawn
KpopSample ==
    /\ kpc = "start"
    /\ \E S \in RandomSample(YearsToSearch(current_year),
                             Min(Cardinality(YearsToSearch(current_year)),
                                 SampleSize)) :
          /\ years_sample' = S
          /\ todo' = S
    /\ kpc' = "loop"
    /\ UNCHANGED <<month, day, current_year, catalog, albums_found, visited,
                   n_search, clean_albums, stub_profile, mvars, avars>>

\* lines 46-64: the loop takes the next sampled year and searches it
KpopYear ==
    /\ kpc = "loop"
    /\ \E year \in todo, resp \in Pages(catalog) :
          LET r == ProcessYear(albums_found, resp, month, day) IN
          /\ todo' = todo \ {year}
          /\ visited' = visited \cup {year}
          /\ n_search' = n_search + 1
          /\ albums_found' = r.acc
          /\ kpc' = IF r.stop THEN "returned" ELSE "loop"
          /\ clean_albums' = IF r.failed THEN clean_albums
                             ELSE clean_albums \o WantedOf(resp, month, day)
          /\ stub_profile' = NextProfile(stub_profile, resp, month, day)
    /\ UNCHANGED <<month, day, current_year, catalog, years_sample, mvars,
                   avars>>

\* line 66: the sample is exhausted
KpopExhausted ==
    /\ kpc = "loop"
    /\ todo = {}
    /\ kpc' = "returned"
    /\ UNCHANGED <<month, day, current_year, catalog, years_sample, todo,
                   albums_found, visited, n_search, clean_albums, stub_profile,
                   mvars, avars>>

----------------------------------------------------------------------------
(* get_movie_recommendations *)

\* vote_average is in tenths; a record without the field holds <<>>
Movie1 == [id |-> 1, vote_average |-> <<72>>]
Movie2 == [id |-> 2, vote_average |-> <<>>]

\* What one discovery request can end in:
\*   timeout     requests.get raises (Timeout, ConnectionError)
\*   http_error  raise_for_status raises HTTPError
\*   not_json    response.json() raises on a body that is not JSON
\*   not_object  the body is JSON but not an object, data.get raises
\*   object      the body is an object; results is its "results" list
\*               (<<>> also stands for a missing or null "results")
Outcome(kind, results) == [kind |-> kind, results |-> results]
MovieOutcomes ==
    {Outcome(k, <<>>) : k \in {"timeout", "http_error", "not_json",
                               "not_object"}}
    \cup {Outcome("object", r) : r \in {<<>>, <<Movie1>>, <<Movie2, Movie1>>}}

\* lines 81-94: one iteration; raised means the exception left the function
FetchYear(acc, out, json_caught) ==
    IF out.kind \in {"timeout", "http_error"}
    THEN [acc |-> acc, raised |-> FALSE]
    ELSE IF out.kind = "not_json"
    THEN [acc |-> acc, raised |-> ~json_caught]
    ELSE IF out.kind = "not_object"
    THEN [acc |-> acc, raised |-> TRUE]
    ELSE IF out.results # <<>>
    THEN [acc |-> acc \o out.results, raised |-> FALSE]
    ELSE [acc |-> acc, raised |-> FALSE]

\* lines 73-78: the key check and the start of the loop
MovieStart ==
    /\ mpc = "start"
    /\ IF api_key = ""
       THEN /\ screen' = screen \cup {"tmdb_key_error"}
            /\ mpc' = "returned"
       ELSE /\ screen' = screen
            /\ mpc' = "loop"
    /\ fn_movies' = <<>>
    /\ get_log' = <<>>
    /\ UNCHANGED <<api_key, json_error_is_request_error, kvars, pc, secrets,
                   client_hashable, sel, albums, movies, shown_albums,
                   shown_movies, kpop_cache, movie_cache, n_submit,
                   kpop_first, movie_first, last_call>>

\* lines 80-94: the request for the next year of the range
MovieYear ==
    /\ mpc = "loop"
    /\ Len(get_log) < MovieYears
    /\ \E out \in MovieOutcomes :
          LET r == FetchYear(fn_movies, out, json_error_is_request_error) IN
          /\ Len(r.acc) <= MaxMovies
          /\ get_log' = Append(get_log, current_year - Len(get_log))
          /\ fn_movies' = r.acc
          /\ mpc' = IF r.raised THEN "raised" ELSE "loop"
    /\ UNCHANGED <<api_key, json_error_is_request_error, kvars, avars>>

\* line 96
MovieReturn ==
    /\ mpc = "loop"
    /\ Len(get_log) = MovieYears
    /\ mpc' = "returned"
    /\ UNCHANGED <<api_key, fn_movies, get_log, json_error_is_request_error,
                   kvars, avars>>

----------------------------------------------------------------------------
(* Post-processing of the raw lists, lines 141-144 and 164-167 *)

\* the keys of {x['id']: x for x in raw}, in insertion order
RECURSIVE DictKeys(_, _)
DictKeys(raw, keys) ==
    IF raw = <<>> THEN keys
    ELSE IF \E i \in 1..Len(keys) : keys[i] = Head(raw).id
         THEN DictKeys(Tail(raw), keys)
         ELSE DictKeys(Tail(raw), Append(keys, Head(raw).id))

\* the value the dict keeps for a key: the last record with that id
DictValue(raw, id) ==
    LET last == CHOOSE i \in 1..Len(raw) :
                    /\ raw[i].id = id
                    /\ \A j \in (i + 1)..Len(raw) : raw[j].id # id
    IN raw[last]

DedupKeepAll(raw) == raw

\* {x['id']: x for x in raw}.values()
DedupById(raw) ==
    LET keys == DictKeys(raw, <<>>) IN
    [i \in 1..Len(keys) |-> DictValue(raw, keys[i])]

\* comparison of two "YYYY-MM-DD" strings, field by field
RECURSIVE DateLess(_, _)
DateLess(a, b) ==
    IF a = <<>> THEN b # <<>>
    ELSE IF b = <<>> THEN FALSE
    ELSE IF Head(a) # Head(b) THEN Head(a) < Head(b)
    ELSE DateLess(Tail(a), Tail(b))

\* movie.get('vote_average', 0)
VoteAverage(movie) ==
    IF movie.vote_average = <<>> THEN 0 ELSE movie.vote_average[1]

\* key(x) < key(y) for the sort key of the given kind of record
KeyLess(kind, x, y) ==
    IF kind = "album" THEN DateLess(x.release_date, y.release_date)
    ELSE VoteAverage(x) < VoteAverage(y)

\* x goes behind every record whose key is not smaller than its own
RECURSIVE InsertDesc(_, _, _)
InsertDesc(kind, x, sorted) ==
    IF sorted = <<>> THEN <<x>>
    ELSE IF KeyLess(kind, Head(sorted), x) THEN <<x>> \o sorted
    ELSE <<Head(sorted)>> \o InsertDesc(kind, x, Tail(sorted))

\* sorted(seq, key=..., reverse=True): stable, largest key first
RECURSIVE SortedDesc(_, _, _)
SortedDesc(kind, seq, done) ==
    IF seq = <<>> THEN done
    ELSE SortedDesc(kind, Tail(seq), InsertDesc(kind, Head(seq), done))

\* seq[:n]
Take(seq, n) == SubSeq(seq, 1, Min(n, Len(seq)))

\* lines 141-144: the albums the script displays
DisplayedAlbums(raw) ==
    Take(SortedDesc("album", DedupById(raw), <<>>), DisplayCap)

\* lines 164-167: the movies the script displays
DisplayedMovies(raw) ==
    Take(SortedDesc("movie", DedupById(raw), <<>>), DisplayCap)

----------------------------------------------------------------------------
(* The script run, lines 105-174 *)

\* the (month, day) pairs the form is submitted with
FormDates == {<<3, 1>>, <<3, 2>>}

NoCall == [fn |-> "none", repeat |-> FALSE, net |-> 0, same |-> FALSE]

\* history only: a finder call ended; repeat says whether the same inputs
\* were used before, same whether it gave back the list of the first call
CallEnded(fn, first, key, raised, list, net) ==
    [fn |-> fn,
     repeat |-> key \in DOMAIN first,
     net |-> net,
     same |-> /\ key \in DOMAIN first
              /\ ~raised
              /\ first[key] = [raised |-> FALSE, list |-> list]]

Remember(first, key, raised, list) ==
    IF key \in DOMAIN first THEN first
    ELSE (key :> [raised |-> raised, list |-> list]) @@ first

\* lines 106-115: the form is submitted and the script runs again
Submit ==
    /\ pc \in {"idle", "done", "stopped", "crashed"}
    /\ n_submit < MaxSubmits
    /\ n_submit' = n_submit + 1
    /\ \E md \in FormDates : sel' = md
    /\ screen' = {}
    /\ shown_albums' = <<>>
    /\ shown_movies' = <<>>
    /\ albums' = <<>>
    /\ movies' = <<>>
    /\ pc' = "secrets"
    /\ UNCHANGED <<kvars, mvars, secrets, client_hashable, kpop_cache,
                   movie_cache, kpop_first, movie_first, last_call>>

\* lines 117-127: the secrets are read and the Spotify client is built.
\* A missing key raises KeyError, which is reported and stops the run.  With
\* an empty client id or secret SpotifyClientCredentials raises
\* SpotifyOauthError (no SPOTIPY_* environment variable stands in for it),
\* which the except clause does not name.
LoadSecrets ==
    /\ pc = "secrets"
    /\ \/ /\ "missing" \in {secrets.tmdb, secrets.spotify}
          /\ screen' = screen \cup {"secrets_error"}
          /\ pc' = "stopped"
       \/ /\ "missing" \notin {secrets.tmdb, secrets.spotify}
          /\ secrets.spotify = "empty"
          /\ screen' = screen \cup {"exception"}
          /\ pc' = "crashed"
       \/ /\ "missing" \notin {secrets.tmdb, secrets.spotify}
          /\ secrets.spotify = "set"
          /\ screen' = screen
          /\ pc' = "call_kpop"
    /\ UNCHANGED <<kvars, mvars, secrets, client_hashable, sel, albums, movies,
                   shown_albums, shown_movies, kpop_cache, movie_cache,
                   n_submit, kpop_first, movie_first, last_call>>

\* lines 27-28 and 136: the cached get_spotify_releases is called with the
\* client object built in this run.  st.cache_data hashes the arguments: it
\* raises UnhashableParamError when it cannot hash the client; when it can,
\* two clients built from the same credentials give the same key.
CallKpop ==
    /\ pc = "call_kpop"
    /\ IF ~client_hashable
       THEN /\ pc' = "crashed"
            /\ screen' = screen \cup {"exception"}
            /\ last_call' = CallEnded("kpop", kpop_first, sel, TRUE, <<>>, 0)
            /\ kpop_first' = Remember(kpop_first, sel, TRUE, <<>>)
            /\ UNCHANGED <<kvars, albums>>
       ELSE IF sel \in DOMAIN kpop_cache
       THEN /\ pc' = "render_albums"
            /\ albums' = kpop_cache[sel]
            /\ last_call' = CallEnded("kpop", kpop_first, sel, FALSE,
                                      kpop_cache[sel], 0)
            /\ kpop_first' = Remember(kpop_first, sel, FALSE, kpop_cache[sel])
            /\ UNCHANGED <<kvars, screen>>
       ELSE /\ pc' = "in_kpop"
            /\ kpc' = "start"
            /\ month' = sel[1]
            /\ day' = sel[2]
            /\ years_sample' = {}
            /\ todo' = {}
            /\ albums_found' = <<>>
            /\ visited' = {}
            /\ n_search' = 0
            /\ clean_albums' = <<>>
            /\ stub_profile' = "all_valid"
            /\ UNCHANGED <<current_year, catalog, albums, screen, last_call,
                           kpop_first>>
    /\ UNCHANGED <<mvars, secrets, client_hashable, sel, movies, shown_albums,
                   shown_movies, kpop_cache, movie_cache, n_submit,
                   movie_first>>

\* lines 27-28 and 136: the call returns and its result is stored
KpopStore ==
    /\ pc = "in_kpop"
    /\ kpc = "returned"
    /\ kpc' = "idle"
    /\ kpop_cache' = (sel :> albums_found) @@ kpop_cache
    /\ albums' = albums_found
    /\ last_call' = CallEnded("kpop", kpop_first, sel, FALSE, albums_found,
                              n_search)
    /\ kpop_first' = Remember(kpop_first, sel, FALSE, albums_found)
    /\ pc' = "render_albums"
    /\ UNCHANGED <<month, day, current_year, catalog, years_sample, todo,
                   albums_found, visited, n_search, clean_albums, stub_profile,
                   mvars, secrets, client_hashable, sel, movies, shown_albums,
                   shown_movies, screen, movie_cache, n_submit, movie_first>>

\* lines 138-153
RenderAlbums ==
    /\ pc = "render_albums"
    /\ IF albums # <<>>
       THEN /\ screen' = screen \cup {"albums_success"}
            /\ shown_albums' = DisplayedAlbums(albums)
       ELSE /\ screen' = screen \cup {"albums_not_found"}
            /\ shown_albums' = <<>>
    /\ pc' = "call_movie"
    /\ UNCHANGED <<kvars, mvars, secrets, client_hashable, sel, albums, movies,
                   shown_movies, kpop_cache, movie_cache, n_submit,
                   kpop_first, movie_first, last_call>>

\* lines 68-69 and 159: the cached get_movie_recommendations is called; a
\* hit gives the stored list and replays the elements the call had rendered
CallMovie ==
    /\ pc = "call_movie"
    /\ IF sel \in DOMAIN movie_cache
       THEN /\ pc' = "render_movies"
            /\ movies' = movie_cache[sel].list
            /\ screen' = screen \cup movie_cache[sel].elements
            /\ last_call' = CallEnded("movie", movie_first, sel, FALSE,
                                      movie_cache[sel].list, 0)
            /\ movie_first' = Remember(movie_first, sel, FALSE,
                                       movie_cache[sel].list)
            /\ UNCHANGED mvars
       ELSE /\ pc' = "in_movie"
            /\ mpc' = "start"
            /\ api_key' = secrets.tmdb
            /\ fn_movies' = <<>>
            /\ get_log' = <<>>
            /\ UNCHANGED <<json_error_is_request_error, movies, screen,
                           last_call, movie_first>>
    /\ UNCHANGED <<kvars, secrets, client_hashable, sel, albums, shown_albums,
                   shown_movies, kpop_cache, movie_cache, n_submit,
                   kpop_first>>

\* lines 68-69 and 159: the call returns and its result is stored, or the
\* exception it raised ends the run
MovieStore ==
    /\ pc = "in_movie"
    /\ mpc \in {"returned", "raised"}
    /\ mpc' = "idle"
    /\ IF mpc = "returned"
       THEN /\ movie_cache' =
                  (sel :> [list |-> fn_movies,
                           elements |-> screen \cap {"tmdb_key_error"}])
                  @@ movie_cache
            /\ movies' = fn_movies
            /\ screen' = screen
            /\ pc' = "render_movies"
       ELSE /\ movie_cache' = movie_cache
            /\ movies' = movies
            /\ screen' = screen \cup {"exception"}
            /\ pc' = "crashed"
    /\ last_call' = CallEnded("movie", movie_first, sel, mpc = "raised",
                              fn_movies, Len(get_log))
    /\ movie_first' = Remember(movie_first, sel, mpc = "raised", fn_movies)
    /\ UNCHANGED <<kvars, api_key, fn_movies, get_log,
                   json_error_is_request_error, secrets, client_hashable, sel,
                   albums, shown_albums, shown_movies, kpop_cache, n_submit,
                   kpop_first>>

\* lines 161-174
RenderMovies ==
    /\ pc = "render_movies"
    /\ IF movies # <<>>
       THEN /\ screen' = screen \cup {"movies_success"}
            /\ shown_movies' = DisplayedMovies(movies)
       ELSE /\ screen' = screen \cup {"movies_not_found"}
            /\ shown_movies' = <<>>
    /\ pc' = "done"
    /\ UNCHANGED <<kvars, mvars, secrets, client_hashable, sel, albums, movies,
                   shown_albums, kpop_cache, movie_cache, n_submit,
                   kpop_first, movie_first, last_call>>

----------------------------------------------------------------------------
(* Specifications *)

KpopIdle ==
    /\ month = 3
    /\ day = 1
    /\ years_sample = {}
    /\ todo = {}
    /\ albums_found = <<>>
    /\ visited = {}
    /\ n_search = 0
    /\ clean_albums = <<>>
    /\ stub_profile = "all_valid"

MovieIdle ==
    /\ api_key = ""
    /\ fn_movies = <<>>
    /\ get_log = <<>>

ScriptIdle ==
    /\ sel = <<3, 1>>
    /\ albums = <<>>
    /\ movies = <<>>
    /\ shown_albums = <<>>
    /\ shown_movies = <<>>
    /\ screen = {}
    /\ kpop_cache = <<>>
    /\ movie_cache = <<>>
    /\ n_submit = 0
    /\ kpop_first = <<>>
    /\ movie_first = <<>>
    /\ last_call = NoCall

\* one call of get_spotify_releases, outside the cache and the script
InitKpop ==
    /\ kpc = "start"
    /\ \/ /\ month \in Months
          /\ day \in Days
          /\ current_year \in (RangeStop + 1)..(RangeStop + 1 + MaxYears)
          /\ catalog = "rich"
       \/ /\ month = 3
          /\ day = 1
          /\ current_year \in
                (RangeStop + SampleSize)..(RangeStop + 1 + MaxYearsWide)
          /\ catalog = "wide"
    /\ years_sample = {}
    /\ todo = {}
    /\ albums_found = <<>>
    /\ visited = {}
    /\ n_search = 0
    /\ clean_albums = <<>>
    /\ stub_profile = "all_valid"
    /\ mpc = "idle"
    /\ MovieIdle
    /\ json_error_is_request_error = TRUE
    /\ pc = "off"
    /\ secrets = [tmdb |-> "k", spotify |-> "set"]
    /\ client_hashable = TRUE
    /\ ScriptIdle

NextKpop == KpopSample \/ KpopYear \/ KpopExhausted

SpecKpop == InitKpop /\ [][NextKpop]_vars

\* one call of get_movie_recommendations, outside the cache and the script
InitMovie ==
    /\ kpc = "idle"
    /\ KpopIdle
    /\ current_year \in (RangeStop + 1)..(RangeStop + 1 + MaxYears)
    /\ catalog = "wide"
    /\ mpc = "start"
    /\ api_key \in {"", "k"}
    /\ fn_movies = <<>>
    /\ get_log = <<>>
    /\ json_error_is_request_error \in BOOLEAN
    /\ pc = "off"
    /\ secrets = [tmdb |-> api_key, spotify |-> "set"]
    /\ client_hashable = TRUE
    /\ ScriptIdle

NextMovie == MovieStart \/ MovieYear \/ MovieReturn

SpecMovie == InitMovie /\ [][NextMovie]_vars

\* the process: form submissions, each running the script
Init ==
    /\ kpc = "idle"
    /\ KpopIdle
    /\ current_year = RangeStop + 3
    /\ catalog = "wide"
    /\ mpc = "idle"
    /\ MovieIdle
    /\ json_error_is_request_error \in BOOLEAN
    /\ pc = "idle"
    /\ secrets \in [tmdb : {"missing", "", "k"},
                    spotify : {"missing", "empty", "set"}]
    /\ client_hashable \in BOOLEAN
    /\ ScriptIdle

Next ==
    \/ Submit \/ LoadSecrets
    \/ CallKpop \/ KpopSample \/ KpopYear \/ KpopExhausted \/ KpopStore
    \/ RenderAlbums
    \/ CallMovie \/ MovieStart \/ MovieYear \/ MovieReturn \/ MovieStore
    \/ RenderMovies

Spec == Init /\ [][Next]_vars

\* the post-processing alone, on the raw lists a finder can hand over
AlbumIdNames == <<"a", "b", "c", "d", "e", "f", "g", "h", "i", "j">>

RawRecord(kind, i, k) ==
    IF kind = "album"
    THEN [id |-> AlbumIdNames[i], release_date_precision |-> "day",
          release_date |-> <<IF k = 1 THEN 2012 ELSE 2015, 3, 1>>]
    ELSE [id |-> i, vote_average |-> IF k = 1 THEN <<>> ELSE <<72>>]

IdsOf(raw) == {raw[i].id : i \in 1..Len(raw)}

\* the orders in which n records can repeat ids, the ids numbered in order of
\* first appearance
RECURSIVE IdOrders(_)
IdOrders(n) ==
    IF n = 0 THEN {<<>>}
    ELSE UNION {{Append(s, i) :
                    i \in 1..(Cardinality({s[j] : j \in 1..Len(s)}) + 1)} :
                s \in IdOrders(n - 1)}

\* the list of n records with the ids in the order ids and the sort keys keys
RawList(kind, n, ids, keys) ==
    [i \in 1..n |-> RawRecord(kind, ids[i], keys[i])]

InitPresent ==
    /\ kpc = "idle"
    /\ KpopIdle
    /\ current_year = RangeStop + 3
    /\ catalog = "wide"
    /\ mpc = "idle"
    /\ MovieIdle
    /\ json_error_is_request_error = TRUE
    /\ secrets = [tmdb |-> "k", spotify |-> "set"]
    /\ client_hashable = TRUE
    /\ sel = <<3, 1>>
    /\ shown_albums = <<>>
    /\ shown_movies = <<>>
    /\ screen = {}
    /\ kpop_cache = <<>>
    /\ movie_cache = <<>>
    /\ n_submit = 1
    /\ kpop_first = <<>>
    /\ movie_first = <<>>
    /\ last_call = NoCall
    /\ \/ /\ pc = "render_albums"
          /\ \E n \in 0..MaxRaw : \E ids \in IdOrders(n) :
                \E keys \in [1..n -> 1..2] :
                    albums = RawList("album", n, ids, keys)
          /\ movies = <<>>
       \/ /\ pc = "render_movies"
          /\ albums = <<>>
          /\ \E n \in 0..MaxRaw : \E ids \in IdOrders(n) :
                \E keys \in [1..n -> 1..2] :
                    movies = RawList("movie", n, ids, keys)

NextPresent == RenderAlbums \/ RenderMovies

SpecPresent == InitPresent /\ [][NextPresent]_vars

----------------------------------------------------------------------------
(* Claims about get_spotify_releases *)

RECURSIVE IsSubSeq(_, _)
IsSubSeq(s, t) ==
    IF s = <<>> THEN TRUE
    ELSE IF t = <<>> THEN FALSE
    ELSE IF Head(s) = Head(t) THEN IsSubSeq(Tail(s), Tail(t))
    ELSE IsSubSeq(s, Tail(t))

\* C1: every record of the list get_spotify_releases builds and returns has
\* release_date_precision "day" and a release_date whose month and day are
\* the queried month and day.
C1_OnlyDayMatches ==
    \A i \in 1..Len(albums_found) :
        /\ albums_found[i].release_date_precision = "day"
        /\ Len(albums_found[i].release_date) = 3
        /\ albums_found[i].release_date[2] = month
        /\ albums_found[i].release_date[3] = day

\* C1 witness: a call for day 2 returned two records after the catalog also
\* gave pages that were not all valid matches.
C1_Witness ==
    /\ kpc = "returned"
    /\ day = 2
    /\ Len(albums_found) >= 2
    /\ stub_profile = "other"

\* C2 as stated: when one sampled year's search raises and every other year
\* returns valid matching records, the output holds the matching records of
\* all the non-failing sampled years, so every sampled year was searched and
\* the output is exactly their matches.
C2_Original ==
    (kpc = "returned" /\ stub_profile = "one_raised")
        => (todo = {} /\ albums_found = clean_albums)

\* C2 amended: a failing year never ends the loop of get_spotify_releases:
\* the call returns only when the sample is exhausted or after a year that
\* left more than 5 records, and its output contains, in order, the matching
\* records of every year that was searched and processed without error.
C2_FailureIsolated ==
    /\ kpc \in {"start", "loop", "returned"}
    /\ kpc = "returned" =>
          /\ IsSubSeq(clean_albums, albums_found)
          /\ (todo = {} \/ Len(albums_found) > 5)

\* C2 witness: one search raised, the other years gave valid matches, all
\* sampled years were searched and the matches were returned.
C2_Witness ==
    /\ kpc = "returned"
    /\ stub_profile = "one_raised"
    /\ todo = {}
    /\ Len(albums_found) >= 2
    /\ albums_found = clean_albums

\* C6 as stated: every search query is issued in a state where the
\* accumulator holds at most 5 records (the loop is about to search another
\* year only if at most 5 records were found), whatever the years' outcomes.
C6_Original ==
    (kpc = "loop" /\ todo # {}) => Len(albums_found) <= 5

C10_Original ==
    (kpc = "returned" /\ (todo = {} \/ Len(clean_albums) > 5))
        => albums_found = clean_albums

----------------------------------------------------------------------------
(* Claims about get_movie_recommendations *)

\* C3 as stated: called with an empty API key, get_movie_recommendations
\* ends in an error, not in a normal result list, and issues no request.
C3_Original ==
    (mpc \in {"returned", "raised"} /\ api_key = "")
        => (mpc = "raised" /\ get_log = <<>>)

\* C4 as stated: with a non-empty key one call issues exactly 20 requests,
\* for current_year, current_year - 1, ..., current_year - 19 in that order,
\* whatever each request ends in, and returns a list.
C4_Original ==
    (mpc \in {"returned", "raised"} /\ api_key # "")
        => /\ mpc = "returned"
           /\ get_log = [i \in 1..20 |-> current_year - (i - 1)]

----------------------------------------------------------------------------
(* Claims about the script run *)

\* C5 as stated: a finder call whose inputs were used by an earlier call of
\* the process issues no network call and gives back the list the first call
\* had given.
C5_Original ==
    last_call.repeat => (last_call.net = 0 /\ last_call.same)

\* C9 as stated: whenever a configuration error is on screen, no album or
\* movie result is rendered in that run, and the "not found" message of the
\* finder that reported the error is not shown.
C9_Original ==
    (screen \cap {"secrets_error", "tmdb_key_error"} # {})
        => /\ screen \cap {"albums_success", "movies_success"} = {}
           /\ shown_albums = <<>>
           /\ shown_movies = <<>>
           /\ "tmdb_key_error" \in screen => "movies_not_found" \notin screen

----------------------------------------------------------------------------
(* Claims about the post-processing *)

PostProcessed(kind, raw, shown) ==
    /\ \A i, j \in 1..Len(shown) : i # j => shown[i].id # shown[j].id
    /\ Len(shown) = Min(5, Cardinality(IdsOf(raw)))
    /\ \A i \in 1..(Len(shown) - 1) : ~KeyLess(kind, shown[i], shown[i + 1])
    /\ \A i \in 1..Len(shown) : \E j \in 1..Len(raw) : raw[j] = shown[i]
    /\ \A id \in IdsOf(raw) \ IdsOf(shown) :
          \E j \in 1..Len(raw) :
              /\ raw[j].id = id
              /\ \A i \in 1..Len(shown) : ~KeyLess(kind, shown[i], raw[j])

ExampleA == [id |-> "a", release_date_precision |-> "day",
             release_date |-> <<2012, 3, 1>>]
ExampleB == [id |-> "b", release_date_precision |-> "day",
             release_date |-> <<2015, 3, 1>>]

\* C8: the displayed list has no two records with the same id, has length
\* min(5, number of distinct ids), is in non-increasing order of the sort key
\* (release_date for albums, vote_average for movies) and holds the records
\* with the highest keys; the albums [a 2012-03-01, a 2012-03-01,
\* b 2015-03-01] are displayed as [b, a].
C8_Displayed ==
    /\ pc = "call_movie" => PostProcessed("album", albums, shown_albums)
    /\ pc = "done" => PostProcessed("movie", movies, shown_movies)
    /\ DisplayedAlbums(<<ExampleA, ExampleA, ExampleB>>)
          = <<ExampleB, ExampleA>>

\* C8 witness: six albums with six ids and two release dates were handed
\* over and five were displayed, the later date first.
C8_Witness ==
    /\ pc = "call_movie"
    /\ Len(albums) = 6
    /\ Cardinality(IdsOf(albums)) = 6
    /\ Len(shown_albums) = 5
    /\ shown_albums[1].release_date # shown_albums[5].release_date
    /\ albums[1].release_date = <<2012, 3, 1>>

====
